---- MODULE Spec2Model ----
(***************************************************************************)
(* easypubsub: an in-process publish/subscribe router.                     *)
(*                                                                         *)
(* A Publisher owns a Map<Subscription, Unsubscribe>.  subscribe() adds a  *)
(* fresh Subscription and returns a closure that deletes it.  The emitter  *)
(* returned by getEmitter() reduces over the Map's key iterator, calls     *)
(* check() on every subscription it visits, invokes the consumers that    *)
(* match, collects the values they return and joins them with Promise.all. *)
(***************************************************************************)
EXTENDS Integers, Sequences, FiniteSets

(***************************************************************************)
(* Bounds of the model.                                                    *)
(***************************************************************************)
MaxSubs == 2        \* subscribe() calls in one run
MaxEmits == 1       \* emitter calls in one run
MaxRepeats == 1     \* calls of an Unsubscribe closure already called, in one run
MaxPlainSubs == 3   \* subscribe() calls in a run whose subscriptions all have a
                    \* consumer that returns undefined and no filter
MaxSoloSubs == 1    \* subscribe() calls in a run that may emit MaxSoloEmits times
MaxSoloEmits == 2   \* emitter calls in a run of at most MaxSoloSubs subscribe() calls
MaxChecks == 2      \* direct calls of check() on one Subscription
MaxBuilds == 2      \* direct calls of buildFilteringOptions()
MaxCreates == 3     \* calls of Subscription.getOrCreate()
MaxUnrefs == 2      \* calls of Subscription.unref()
MaxPublishers == 2  \* Publisher instances side by side
MaxOwned == 2       \* subscribe() calls on all the instances together
MaxEmitters == 2    \* getEmitter() calls on all the instances together
MaxCalls == 2       \* calls of the emitters of the instances

(***************************************************************************)
(* Values.  A JavaScript string is a sequence of characters, a number is a *)
(* natural, undefined is the absent topic.  One record shape for all, so   *)
(* that === (same type and same value) is record equality.                 *)
(***************************************************************************)
StrV(s) == [type |-> "string", n |-> 0, s |-> s]
NumV(n) == [type |-> "number", n |-> n, s |-> <<>>]
Undefined == [type |-> "undefined", n |-> 0, s |-> <<>>]
\* the value of a promise that is not fulfilled
NoValue == [type |-> "none", n |-> 0, s |-> <<>>]

Digit(d) == <<"0", "1", "2", "3", "4", "5", "6", "7", "8", "9">>[d + 1]

RECURSIVE DigitsOf(_)
DigitsOf(n) == IF n < 10 THEN <<Digit(n)>>
               ELSE DigitsOf(n \div 10) \o <<Digit(n % 10)>>

\* Topic.prototype.toString(): a string is itself, a number its decimal form
TopicToString(t) == IF t.type = "number" THEN DigitsOf(t.n) ELSE t.s

(***************************************************************************)
(* Regular expressions: an optional ^, a body of atoms, an optional $.     *)
(* An atom is a literal character or the class \d.                         *)
(***************************************************************************)
IsDigitChar(c) == \E d \in 0..9 : Digit(d) = c

AtomMatches(a, c) == IF a = "\\d" THEN IsDigitChar(c) ELSE a = c

MatchAt(re, s, i) ==
    /\ i + Len(re.body) - 1 <= Len(s)
    /\ \A k \in 1..Len(re.body) : AtomMatches(re.body[k], s[i + k - 1])
    /\ re.anchS => i = 1
    /\ re.anchE => i + Len(re.body) - 1 = Len(s)

\* String.prototype.match(re) !== null: the pattern matches somewhere in s
\* (a slip: the pattern has to match the whole of s)
StringMatchWhole(s, re) ==
    /\ Len(re.body) = Len(s)
    /\ \A k \in 1..Len(re.body) : AtomMatches(re.body[k], s[k])

\* what s.match(re) does with a RegExp that has no g flag: a sticky one (flag
\* y) is tried at re.lastIndex only and lastIndex is written, the end of the
\* match when there is one and 0 when there is none; another one is tried at
\* every index and lastIndex is left alone
RegExpExec(re, s) ==
    IF re.sticky
    THEN IF re.lastIndex <= Len(s) /\ MatchAt(re, s, re.lastIndex + 1)
         THEN [found |-> TRUE, lastIndex |-> re.lastIndex + Len(re.body)]
         ELSE [found |-> FALSE, lastIndex |-> 0]
    ELSE [found |-> \E i \in 1..(Len(s) + 1) : MatchAt(re, s, i),
          lastIndex |-> re.lastIndex]

\* s.match(re) !== null
StringMatch(s, re) == RegExpExec(re, s).found

NoRegExp ==
    [anchS |-> FALSE, anchE |-> FALSE, body |-> <<>>, sticky |-> FALSE, lastIndex |-> 0]

(***************************************************************************)
(* TopicPattern = Topic | RegExp, or undefined.                            *)
(***************************************************************************)
NoPattern == [kind |-> "undefined", v |-> Undefined, re |-> NoRegExp]
ExactPattern(v) == [kind |-> "topic", v |-> v, re |-> NoRegExp]
RegExpPattern(re) == [kind |-> "regexp", v |-> Undefined, re |-> re]

(***************************************************************************)
(* Content filters are user predicates over the message.                   *)
(***************************************************************************)
ContentFilters == {"undefined", "isString", "isNumber"}

ContentFilterApply(f, msg) ==
    CASE f = "isString" -> msg.type = "string"
      [] f = "isNumber" -> msg.type = "number"
      [] OTHER -> TRUE

(***************************************************************************)
(* Subscription: the constructor builds topicMatcher once; check() is      *)
(* matchTopic() && (!contentFilter || contentFilter(msg)).                 *)
(***************************************************************************)
\* (a slip: == in place of ===, a number equals the string of its digits)
TopicMatcherLoose(topicPattern, givenTopic) ==
    IF topicPattern.kind = "topic"
    THEN TopicToString(givenTopic) = TopicToString(topicPattern.v)
    ELSE StringMatch(TopicToString(givenTopic), topicPattern.re)

\* a occurs in b
IsSubstring(a, b) ==
    \E i \in 0..(Len(b) - Len(a)) : SubSeq(b, i + 1, i + Len(a)) = a

\* (a slip: an exact pattern is looked for in the string form of the topic)
TopicMatcherIncludes(topicPattern, givenTopic) ==
    IF topicPattern.kind = "topic"
    THEN IsSubstring(TopicToString(topicPattern.v), TopicToString(givenTopic))
    ELSE StringMatch(TopicToString(givenTopic), topicPattern.re)

TopicMatcher(topicPattern, givenTopic) ==
    IF topicPattern.kind = "topic"
    THEN givenTopic = topicPattern.v
    ELSE StringMatch(TopicToString(givenTopic), topicPattern.re)

\* (a slip: the absent topic is tested before the absent pattern)
MatchTopicStrictFirst(sub, topic) ==
    IF topic.type = "undefined" THEN ~sub.strictTopicFiltering
    ELSE IF sub.topicPattern.kind = "undefined" THEN TRUE
    ELSE TopicMatcher(sub.topicPattern, topic)

\* (a slip: a pattern always rejects the absent topic)
MatchTopicAlwaysStrict(sub, topic) ==
    IF sub.topicPattern.kind = "undefined" THEN TRUE
    ELSE IF topic.type = "undefined" THEN FALSE
    ELSE TopicMatcher(sub.topicPattern, topic)

\* (a slip: a subscription that is not strict lets every topic pass)
MatchTopicLenient(sub, topic) ==
    IF sub.topicPattern.kind = "undefined" THEN TRUE
    ELSE IF ~sub.strictTopicFiltering THEN TRUE
    ELSE IF topic.type = "undefined" THEN FALSE
    ELSE TopicMatcher(sub.topicPattern, topic)

MatchTopic(sub, topic) ==
    IF sub.topicPattern.kind = "undefined" THEN TRUE
    ELSE IF topic.type = "undefined" THEN ~sub.strictTopicFiltering
    ELSE TopicMatcher(sub.topicPattern, topic)

\* (a slip: the content filter is called before the topic is looked at)
FilterCalledEager(sub, topic) == sub.contentFilter /= "undefined"

\* check() calls contentFilter(msg) when matchTopic(topic) is true and there
\* is a content filter: && and || do not evaluate their right side otherwise
FilterCalled(sub, topic) ==
    MatchTopic(sub, topic) /\ sub.contentFilter /= "undefined"

\* (a slip: || in place of &&)
CheckEither(sub, msg, topic) ==
    MatchTopic(sub, topic)
    \/ (sub.contentFilter = "undefined" \/ ContentFilterApply(sub.contentFilter, msg))

Check(sub, msg, topic) ==
    MatchTopic(sub, topic)
    /\ (sub.contentFilter = "undefined" \/ ContentFilterApply(sub.contentFilter, msg))

\* the subscription after check(msg, topic): matchTopic runs first and, with a
\* RegExp pattern and a topic, calls match() on the RegExp object it was given
AfterCheck(sub, topic) ==
    IF sub.topicPattern.kind = "regexp" /\ topic.type /= "undefined"
    THEN [sub EXCEPT !.topicPattern.re.lastIndex =
             RegExpExec(sub.topicPattern.re, TopicToString(topic)).lastIndex]
    ELSE sub

\* new Subscription(consume, strictTopicFiltering, topicPattern, contentFilter)
NewSubscription(consume, strictTopicFiltering, topicPattern, contentFilter) ==
    [consume |-> consume,
     strictTopicFiltering |-> strictTopicFiltering,
     topicPattern |-> topicPattern,
     contentFilter |-> contentFilter]

\* Subscription.create(consume, opts): a new Subscription object
SubscriptionCreate(consume, opts) ==
    [consume |-> consume,
     strictTopicFiltering |-> opts.strictTopicFiltering,
     topicPattern |-> opts.topicPattern,
     contentFilter |-> opts.contentFilter]

(***************************************************************************)
(* buildFilteringOptions(props): the caller gives nothing, a bare topic    *)
(* pattern, or an object whose members may each be omitted.                *)
(***************************************************************************)
NoProps == [form |-> "absent", topicPattern |-> NoPattern,
            strictTopicFiltering |-> "omitted", contentFilter |-> "undefined"]
BareProps(p) == [form |-> "bare", topicPattern |-> p,
                 strictTopicFiltering |-> "omitted", contentFilter |-> "undefined"]
ObjectProps(p, strict, f) == [form |-> "object", topicPattern |-> p,
                              strictTopicFiltering |-> strict, contentFilter |-> f]

\* (a slip: a bare pattern is taken without strictness)
BuildFilteringOptionsBareLenient(props) ==
    CASE props.form = "absent" ->
           [topicPattern |-> NoPattern, strictTopicFiltering |-> FALSE,
            contentFilter |-> "undefined"]
      [] props.form = "bare" ->
           [topicPattern |-> props.topicPattern, strictTopicFiltering |-> FALSE,
            contentFilter |-> "undefined"]
      [] OTHER ->
           [topicPattern |-> props.topicPattern,
            strictTopicFiltering |->
                IF props.strictTopicFiltering = "omitted"
                THEN props.topicPattern.kind /= "undefined"
                ELSE props.strictTopicFiltering = "true",
            contentFilter |-> props.contentFilter]

\* (a slip: an omitted strictTopicFiltering always defaults to false)
BuildFilteringOptionsDefaultFalse(props) ==
    CASE props.form = "absent" ->
           [topicPattern |-> NoPattern, strictTopicFiltering |-> FALSE,
            contentFilter |-> "undefined"]
      [] props.form = "bare" ->
           [topicPattern |-> props.topicPattern, strictTopicFiltering |-> TRUE,
            contentFilter |-> "undefined"]
      [] OTHER ->
           [topicPattern |-> props.topicPattern,
            strictTopicFiltering |-> props.strictTopicFiltering = "true",
            contentFilter |-> props.contentFilter]

BuildFilteringOptions(props) ==
    CASE props.form = "absent" ->
           [topicPattern |-> NoPattern, strictTopicFiltering |-> FALSE,
            contentFilter |-> "undefined"]
      [] props.form = "bare" ->
           [topicPattern |-> props.topicPattern, strictTopicFiltering |-> TRUE,
            contentFilter |-> "undefined"]
      [] OTHER ->
           [topicPattern |-> props.topicPattern,
            strictTopicFiltering |->
                IF props.strictTopicFiltering = "omitted"
                THEN props.topicPattern.kind /= "undefined"
                ELSE props.strictTopicFiltering = "true",
            contentFilter |-> props.contentFilter]

(***************************************************************************)
(* Inputs of the runs.                                                     *)
(***************************************************************************)
TopicA == StrV(<<"a">>)
TopicB == StrV(<<"b">>)
Topics == {Undefined, TopicA, TopicB}
Messages == {StrV(<<"m">>), NumV(7)}

\* what a consumer function does when it is called
Consumers == {"sync", "async", "throws", "revoker", "subscriber"}

CreationProps ==
    {NoProps,
     BareProps(ExactPattern(TopicA)),
     ObjectProps(NoPattern, "false", "isString")}

\* the subscribe() calls of the runs: every filter with the consumers that
\* only consume, no filter with the consumers that throw or call back
\* a content filter that throws when it is called
ThrowingFilter == "throws"

\* a topic pattern together with a content filter
FilteredProps ==
    {ObjectProps(ExactPattern(TopicA), "true", "isString"),
     ObjectProps(ExactPattern(TopicA), "true", ThrowingFilter)}

SubscribeInputs ==
    ({"sync", "async"} \X CreationProps)
    \cup ({"throws", "revoker", "subscriber"} \X {NoProps})
    \cup ({"sync"} \X FilteredProps)

(***************************************************************************)
(* State.                                                                  *)
(***************************************************************************)
VARIABLES
    heap,           \* the Subscription objects, by identity
    subscriptions,  \* Publisher.subscriptions: the Map's entry list, in
                    \* insertion order; a deleted entry stays as a hole
    returned,       \* the Unsubscribe closure each subscribe() call returned
    called,         \* per Unsubscribe closure: 0 if never called, else the
                    \* number of subscribe() calls made before its first call
    repeats,        \* the calls of closures that had been called before
    pass,           \* the emitter call in progress, if any
    emissions,      \* the emitter calls made, each with its result
    promises,       \* the promises returned by asynchronous consumers
    checks,         \* the direct calls of check() on a Subscription, with
                    \* what each returned
    built,          \* the direct calls of buildFilteringOptions(), with
                    \* what each returned
    uniqueSubscriptions,    \* Subscription.uniqueSubscriptions: key -> Subscription
    lastId,         \* Subscription.lastId
    issued,         \* what each Subscription.getOrCreate() call returned
    unrefs,         \* the Subscription.unref() calls, with what each returned
    instances       \* several Publisher instances side by side: their Maps,
                    \* their subscriptions, the emitters obtained from them
                    \* and the emitter calls made

\* the state of a Publisher and of its emitter calls
publisher == <<heap, subscriptions, returned, called, repeats, pass, emissions, promises>>
\* the static members of Subscription, and the calls made on them
registry == <<uniqueSubscriptions, lastId, issued, unrefs>>
\* what no Publisher method touches
aside == <<checks, built, registry, instances>>

vars == <<publisher, aside>>

(***************************************************************************)
(* Map<Subscription, Unsubscribe>.  Keys are compared by identity.  An     *)
(* iterator holds an index into the entry list: entries deleted before it  *)
(* reaches them are skipped, entries appended before it ends are visited.  *)
(***************************************************************************)
MapKeys(entries) == {entries[i].key : i \in {j \in 1..Len(entries) : entries[j].present}}

\* (a slip: the deleted entries are counted too)
MapSizeWithHoles(entries) == Len(entries)

MapSize(entries) == Cardinality({j \in 1..Len(entries) : entries[j].present})

MapHas(entries, key) == \E i \in 1..Len(entries) : entries[i].present /\ entries[i].key = key

MapGet(entries, key) ==
    entries[CHOOSE i \in 1..Len(entries) : entries[i].present /\ entries[i].key = key].value

MapSet(entries, key, value) ==
    IF MapHas(entries, key)
    THEN [i \in 1..Len(entries) |->
            IF entries[i].present /\ entries[i].key = key
            THEN [entries[i] EXCEPT !.value = value] ELSE entries[i]]
    ELSE Append(entries, [key |-> key, value |-> value, present |-> TRUE])

MapDelete(entries, key) ==
    [i \in 1..Len(entries) |->
        IF entries[i].present /\ entries[i].key = key
        THEN [entries[i] EXCEPT !.present = FALSE] ELSE entries[i]]

\* (a slip: the iterator loses its place when an entry behind it is deleted
\* and steps over the entry that follows)
IteratorNextByIndex(entries, idx) ==
    LET rest == {i \in (idx + 1)..Len(entries) : entries[i].present}
        gone == {i \in 1..idx : ~entries[i].present}
        skip == IF gone = {} \/ rest = {} THEN rest
                ELSE rest \ {CHOOSE i \in rest : \A j \in rest : i <= j}
    IN IF skip = {} THEN 0 ELSE CHOOSE i \in skip : \A j \in skip : i <= j

\* the entry the iterator yields after position idx, 0 when it is exhausted
IteratorNext(entries, idx) ==
    LET rest == {i \in (idx + 1)..Len(entries) : entries[i].present}
    IN IF rest = {} THEN 0 ELSE CHOOSE i \in rest : \A j \in rest : i <= j

\* the keys an iteration started now would yield if nothing changed
RECURSIVE KeysFrom(_, _)
KeysFrom(entries, idx) ==
    LET i == IteratorNext(entries, idx)
    IN IF i = 0 THEN <<>> ELSE <<entries[i].key>> \o KeysFrom(entries, i)

SubscriptionsNumber == MapSize(subscriptions)

Idle == pass.pc = "idle"
NoPass == [pc |-> "idle", e |-> 0, idx |-> 0]

\* a Map with no entry
EmptyMap == [k \in {} |-> k]

\* the Publisher instances: Publisher.create() called MaxPublishers times
Publishers == 1..MaxPublishers

\* each constructor has made its own Map, this.subscriptions = new Map()
InstancesInit ==
    instances = [maps |-> [p \in Publishers |-> <<>>],
                 heap |-> <<>>,
                 emitters |-> <<>>,
                 log |-> <<>>,
                 last |-> 0]

\* static uniqueSubscriptions = new Map(); static lastId = -1
RegistryInit ==
    /\ uniqueSubscriptions = EmptyMap
    /\ lastId = -1
    /\ issued = <<>>
    /\ unrefs = <<>>

Init ==
    /\ heap = <<>>
    /\ subscriptions = <<>>
    /\ returned = <<>>
    /\ called = <<>>
    /\ repeats = <<>>
    /\ pass = NoPass
    /\ emissions = <<>>
    /\ promises = <<>>
    /\ checks = <<>>
    /\ built = <<>>
    /\ RegistryInit
    /\ InstancesInit

Handles == 1..Len(heap)
CalledHandles == {h \in Handles : called[h] /= 0}

(***************************************************************************)
(* Publisher.subscribe(consume, filteringOptions).  The Subscription is a  *)
(* new object, so its identity is the next free place of the heap; the     *)
(* closure it returns is named after the subscription it captures.         *)
(***************************************************************************)
\* (a slip: a live subscription with equal parameters is reused)
DoSubscribeDedup(consume, filteringOptions) ==
    LET new == SubscriptionCreate(consume, BuildFilteringOptions(filteringOptions))
        same == {k \in MapKeys(subscriptions) : heap[k] = new}
    IN IF same /= {}
       THEN [heap |-> Append(heap, new), subscriptions |-> subscriptions,
             unsubscribe |-> MapGet(subscriptions, CHOOSE k \in same : TRUE)]
       ELSE [heap |-> Append(heap, new),
             subscriptions |-> MapSet(subscriptions, Len(heap) + 1, Len(heap) + 1),
             unsubscribe |-> Len(heap) + 1]

DoSubscribe(consume, filteringOptions) ==
    LET opts == BuildFilteringOptions(filteringOptions)
        subscription == Len(heap) + 1
        newHeap == Append(heap, SubscriptionCreate(consume, opts))
    IN IF MapHas(subscriptions, subscription)
       THEN [heap |-> newHeap, subscriptions |-> subscriptions,
             unsubscribe |-> MapGet(subscriptions, subscription)]
       ELSE [heap |-> newHeap,
             subscriptions |-> MapSet(subscriptions, subscription, subscription),
             unsubscribe |-> subscription]

\* (a slip: every subscription with the same parameters is deleted)
DoUnsubscribeEqual(entries, unsubscribe) ==
    [i \in 1..Len(entries) |->
        IF entries[i].present /\ heap[entries[i].key] = heap[unsubscribe]
        THEN [entries[i] EXCEPT !.present = FALSE] ELSE entries[i]]

\* (a slip: when the subscription is gone, the last live entry is deleted)
DoUnsubscribeSplice(entries, unsubscribe) ==
    LET live == {i \in 1..Len(entries) : entries[i].present}
    IN IF MapHas(entries, unsubscribe) \/ live = {} THEN MapDelete(entries, unsubscribe)
       ELSE [entries EXCEPT ![CHOOSE i \in live : \A j \in live : j <= i].present = FALSE]

\* (a slip: the closure deletes a key the Map never held)
DoUnsubscribeNothing(entries, unsubscribe) == MapDelete(entries, 0)

\* (a slip: the last live entry is moved into the place of the deleted one)
DoUnsubscribeSwap(entries, unsubscribe) ==
    LET live == {i \in 1..Len(entries) : entries[i].present}
        at == {i \in live : entries[i].key = unsubscribe}
    IN IF at = {} THEN entries
       ELSE LET i == CHOOSE x \in at : TRUE
                l == CHOOSE x \in live : \A y \in live : y <= x
            IN [entries EXCEPT ![i] = entries[l], ![l].present = FALSE]

\* the closure () => this.subscriptions.delete(subscription)
DoUnsubscribe(entries, unsubscribe) == MapDelete(entries, unsubscribe)

\* the record of the calls of the closures
CallAllowed(h) == called[h] /= 0 => Len(repeats) < MaxRepeats
CallRecorded(h) ==
    IF called[h] = 0
    THEN called' = [called EXCEPT ![h] = Len(heap)] /\ UNCHANGED repeats
    ELSE repeats' = Append(repeats, [h |-> h, at |-> Len(heap)]) /\ UNCHANGED called

\* the runs explored: MaxSubs subscribe() calls and MaxEmits emitter calls,
\* or fewer subscribe() calls and more emitter calls, or more subscribe()
\* calls all of the plainest kind
PlainSubscription == SubscriptionCreate("sync", BuildFilteringOptions(NoProps))

WithinBounds(h, nEmits) ==
    \/ Len(h) <= MaxSubs /\ nEmits <= MaxEmits
    \/ Len(h) <= MaxSoloSubs /\ nEmits <= MaxSoloEmits
    \/ /\ Len(h) <= MaxPlainSubs /\ nEmits <= MaxEmits
       /\ \A s \in 1..Len(h) : h[s] = PlainSubscription

Subscribe(consume, filteringOptions) ==
    /\ Idle
    /\ WithinBounds(DoSubscribe(consume, filteringOptions).heap, Len(emissions))
    /\ LET r == DoSubscribe(consume, filteringOptions)
       IN /\ heap' = r.heap
          /\ subscriptions' = r.subscriptions
          /\ returned' = Append(returned, r.unsubscribe)
          /\ called' = Append(called, 0)
    /\ UNCHANGED <<repeats, pass, emissions, promises, aside>>

Unsubscribe(h) ==
    /\ Idle
    /\ CallAllowed(h)
    /\ subscriptions' = DoUnsubscribe(subscriptions, h)
    /\ CallRecorded(h)
    /\ UNCHANGED <<heap, returned, pass, emissions, promises, aside>>

(***************************************************************************)
(* The emitter (msg, topic?) => MaybePromise<void>.                        *)
(***************************************************************************)
Emit(msg, topic) ==
    /\ Idle
    /\ WithinBounds(heap, Len(emissions) + 1)
    /\ emissions' = Append(emissions,
          [msg |-> msg, topic |-> topic,
           liveAtStart |-> KeysFrom(subscriptions, 0),
           createdAtStart |-> Len(heap),
           calledAtStart |-> CalledHandles,
           evaluated |-> <<>>,      \* subscriptions check() was called on
           filtered |-> <<>>,       \* subscriptions whose contentFilter was called
           invoked |-> <<>>,        \* consumers called, with their argument
           wait |-> <<>>,           \* consumptionFunctionsToWait
           setChanged |-> FALSE,    \* a consumer changed the Map
           revoked |-> <<>>,        \* the closures the consumers called
           value |-> NoValue,       \* what the returned promise is fulfilled with
           result |-> "running"])
    /\ pass' = [pc |-> "reduce", e |-> Len(emissions) + 1, idx |-> 0]
    /\ UNCHANGED <<heap, subscriptions, returned, called, repeats, promises, aside>>

Cur == IteratorNext(subscriptions, pass.idx)
Reducing == pass.pc = "reduce" /\ Cur /= 0
CurSub == subscriptions[Cur].key
\* (a slip: the topic is not handed to check)
CurMatchesNoTopic == Check(heap[CurSub], emissions[pass.e].msg, Undefined)

\* sub.check(msg, topic)
CurMatches == Check(heap[CurSub], emissions[pass.e].msg, emissions[pass.e].topic)
CurConsume == heap[CurSub].consume

\* sub.check(msg, topic) calls the content filter
CurFilterCalled == FilterCalled(heap[CurSub], emissions[pass.e].topic)

\* sub.check(msg, topic) throws what the content filter throws
CurFilterThrows == CurFilterCalled /\ heap[CurSub].contentFilter = ThrowingFilter

\* sub.check(msg, topic) returned
Checked == Reducing /\ ~CurFilterThrows

\* the heap after sub.check(msg, topic)
CheckedHeap == [heap EXCEPT ![CurSub] = AfterCheck(@, emissions[pass.e].topic)]

\* (a slip: the return value is put in front of the accumulator)
ReducerAccFront(acc, consumptionRet) ==
    IF consumptionRet /= 0 THEN <<consumptionRet>> \o acc ELSE acc

\* (a slip: a consumer that returns undefined empties the accumulator)
ReducerAccReset(acc, consumptionRet) ==
    IF consumptionRet /= 0 THEN acc \o <<consumptionRet>> ELSE <<>>

\* the reducer's accumulator: a consumer's return value is kept unless undefined
\* (0 stands for undefined, a promise is named by its number)
ReducerAcc(acc, consumptionRet) ==
    IF consumptionRet /= 0 THEN acc \o <<consumptionRet>> ELSE acc

\* (a slip: the emitter always returns the joined promise)
EmitterReturnAlways(consumptionFunctionsToWait) == "pending"

\* (a slip: the emitter joins only when a collected promise is still pending)
EmitterReturnIfPending(consumptionFunctionsToWait) ==
    IF \E i \in 1..Len(consumptionFunctionsToWait) :
          promises[consumptionFunctionsToWait[i]].state = "pending"
    THEN "pending" ELSE "undefined"

\* what the emitter returns once the reduce is over
EmitterReturn(consumptionFunctionsToWait) ==
    IF Len(consumptionFunctionsToWait) > 0 THEN "pending" ELSE "undefined"

\* (a slip: Promise.race, settled as soon as one of them is)
PromiseRace(ps) ==
    IF \E i \in 1..Len(ps) : promises[ps[i]].state = "rejected" THEN "rejected"
    ELSE IF \E i \in 1..Len(ps) : promises[ps[i]].state = "resolved" THEN "resolved"
    ELSE "pending"

\* (a slip: Promise.allSettled, fulfilled once all are settled either way)
PromiseAllSettled(ps) ==
    IF \A i \in 1..Len(ps) : promises[ps[i]].state /= "pending" THEN "resolved"
    ELSE "pending"

\* (a slip: the join no longer waits for the consumers of revoked subscriptions)
PromiseAllLive(ps) ==
    LET live == {i \in 1..Len(ps) : called[promises[ps[i]].sub] = 0}
    IN IF \E i \in live : promises[ps[i]].state = "rejected" THEN "rejected"
       ELSE IF \A i \in live : promises[ps[i]].state = "resolved" THEN "resolved"
       ELSE "pending"

\* what the promise of an asynchronous consumer is fulfilled with
ConsumerValue(p) == emissions[promises[p].e].msg

\* the array Promise.all(ps) is fulfilled with
PromiseAllValues(ps) == [i \in 1..Len(ps) |-> promises[ps[i]].value]

\* (a slip: .then(values => values), the consumers' values are handed on)
OnFulfilledValues(values) == values

\* the callback () => {} of .then: whatever it is given, it returns undefined
OnFulfilled(values) == Undefined

\* Promise.all(ps).then(() => {}): rejected as soon as one is, fulfilled when all are
PromiseAll(ps) ==
    IF \E i \in 1..Len(ps) : promises[ps[i]].state = "rejected" THEN "rejected"
    ELSE IF \A i \in 1..Len(ps) : promises[ps[i]].state = "resolved" THEN "resolved"
    ELSE "pending"

Evaluated(em) ==
    [em EXCEPT !.evaluated = Append(@, CurSub),
               !.filtered = IF CurFilterCalled THEN Append(@, CurSub) ELSE @]
Invoked(em) ==
    [Evaluated(em) EXCEPT !.invoked = Append(@, [sub |-> CurSub, msg |-> em.msg])]

\* sub.check(msg, topic) is false
ReduceSkip ==
    /\ Checked
    /\ ~CurMatches
    /\ emissions' = [emissions EXCEPT ![pass.e] = Evaluated(@)]
    /\ pass' = [pass EXCEPT !.idx = Cur]
    /\ heap' = CheckedHeap
    /\ UNCHANGED <<subscriptions, returned, called, repeats, promises, aside>>

\* (a slip: what the content filter throws is caught and taken as false)
FilterThrowsCaught ==
    /\ Reducing
    /\ CurFilterThrows
    /\ emissions' = [emissions EXCEPT ![pass.e] = Evaluated(@)]
    /\ pass' = [pass EXCEPT !.idx = Cur]
    /\ heap' = CheckedHeap
    /\ UNCHANGED <<subscriptions, returned, called, repeats, promises, aside>>

\* the content filter throws: the exception leaves check(), the reducer and
\* the emitter
FilterThrows ==
    /\ Reducing
    /\ CurFilterThrows
    /\ emissions' = [emissions EXCEPT ![pass.e] = [Evaluated(@) EXCEPT !.result = "threw"]]
    /\ pass' = NoPass
    /\ heap' = CheckedHeap
    /\ UNCHANGED <<subscriptions, returned, called, repeats, promises, aside>>

\* the consumer returns undefined
\* (a slip: a subscription is served once, the emitter deletes it after
\* calling its consumer)
ConsumeSyncOnce ==
    /\ Checked
    /\ CurMatches
    /\ CurConsume = "sync"
    /\ emissions' = [emissions EXCEPT ![pass.e] =
                        [Invoked(@) EXCEPT !.wait = ReducerAcc(@, 0)]]
    /\ pass' = [pass EXCEPT !.idx = Cur]
    /\ heap' = CheckedHeap
    /\ subscriptions' = MapDelete(subscriptions, CurSub)
    /\ UNCHANGED <<returned, called, repeats, promises, aside>>

ConsumeSync ==
    /\ Checked
    /\ CurMatches
    /\ CurConsume = "sync"
    /\ emissions' = [emissions EXCEPT ![pass.e] =
                        [Invoked(@) EXCEPT !.wait = ReducerAcc(@, 0)]]
    /\ pass' = [pass EXCEPT !.idx = Cur]
    /\ heap' = CheckedHeap
    /\ UNCHANGED <<subscriptions, returned, called, repeats, promises, aside>>

\* the consumer returns a promise
ConsumeAsync ==
    /\ Checked
    /\ CurMatches
    /\ CurConsume = "async"
    /\ promises' = Append(promises, [state |-> "pending", sub |-> CurSub, e |-> pass.e,
                                     value |-> NoValue])
    /\ emissions' = [emissions EXCEPT ![pass.e] =
                        [Invoked(@) EXCEPT !.wait = ReducerAcc(@, Len(promises) + 1)]]
    /\ pass' = [pass EXCEPT !.idx = Cur]
    /\ heap' = CheckedHeap
    /\ UNCHANGED <<subscriptions, returned, called, repeats, aside>>

\* (a slip: the reducer catches what the consumer throws and goes on)
ConsumeThrowsCaught ==
    /\ Checked
    /\ CurMatches
    /\ CurConsume = "throws"
    /\ emissions' = [emissions EXCEPT ![pass.e] =
                        [Invoked(@) EXCEPT !.wait = ReducerAcc(@, 0)]]
    /\ pass' = [pass EXCEPT !.idx = Cur]
    /\ heap' = CheckedHeap
    /\ UNCHANGED <<subscriptions, returned, called, repeats, promises, aside>>

\* the consumer throws: the exception leaves the reducer and the emitter
ConsumeThrows ==
    /\ Checked
    /\ CurMatches
    /\ CurConsume = "throws"
    /\ emissions' = [emissions EXCEPT ![pass.e] = [Invoked(@) EXCEPT !.result = "threw"]]
    /\ pass' = NoPass
    /\ heap' = CheckedHeap
    /\ UNCHANGED <<subscriptions, returned, called, repeats, promises, aside>>

\* the consumer calls an Unsubscribe closure it holds, then returns undefined
ConsumeRevoker ==
    /\ Checked
    /\ CurMatches
    /\ CurConsume = "revoker"
    /\ \E h \in Handles :
          /\ CallAllowed(h)
          /\ subscriptions' = DoUnsubscribe(subscriptions, h)
          /\ CallRecorded(h)
          /\ emissions' = [emissions EXCEPT ![pass.e] =
                [Invoked(@) EXCEPT !.wait = ReducerAcc(@, 0),
                                   !.setChanged = @ \/ MapHas(subscriptions, h),
                                   !.revoked = Append(@, [by |-> CurSub, h |-> h])]]
    /\ pass' = [pass EXCEPT !.idx = Cur]
    /\ heap' = CheckedHeap
    /\ UNCHANGED <<returned, promises, aside>>

\* the consumer calls publisher.subscribe(), then returns undefined
SubscriberRegisters == {"sync", "subscriber"}

ConsumeSubscriber ==
    /\ Checked
    /\ CurMatches
    /\ CurConsume = "subscriber"
    /\ IF WithinBounds(DoSubscribe("subscriber", NoProps).heap, Len(emissions))
       THEN \E c \in SubscriberRegisters :
               LET r == DoSubscribe(c, NoProps)
               IN /\ heap' = [i \in 1..Len(r.heap) |->
                              IF i = CurSub THEN CheckedHeap[i] ELSE r.heap[i]]
                  /\ subscriptions' = r.subscriptions
                  /\ returned' = Append(returned, r.unsubscribe)
                  /\ called' = Append(called, 0)
                  /\ UNCHANGED repeats
                  /\ emissions' = [emissions EXCEPT ![pass.e] =
                        [Invoked(@) EXCEPT !.wait = ReducerAcc(@, 0),
                                           !.setChanged = TRUE]]
       ELSE /\ emissions' = [emissions EXCEPT ![pass.e] =
                                [Invoked(@) EXCEPT !.wait = ReducerAcc(@, 0)]]
            /\ heap' = CheckedHeap
            /\ UNCHANGED <<subscriptions, returned, called, repeats>>
    /\ pass' = [pass EXCEPT !.idx = Cur]
    /\ UNCHANGED <<promises, aside>>

\* the iterator is exhausted: the emitter returns
EmitReturn ==
    /\ pass.pc = "reduce"
    /\ Cur = 0
    /\ emissions' = [emissions EXCEPT ![pass.e].result =
                        EmitterReturn(emissions[pass.e].wait)]
    /\ pass' = NoPass
    /\ UNCHANGED <<heap, subscriptions, returned, called, repeats, promises, aside>>

\* (a slip: once the join has rejected, the consumers still running are cancelled)
ConsumerSettleCancelled(p, state) ==
    /\ Idle
    /\ promises[p].state = "pending"
    /\ emissions[promises[p].e].result /= "rejected"
    /\ promises' = [promises EXCEPT ![p].state = state,
                                    ![p].value = IF state = "resolved" THEN ConsumerValue(p)
                                                 ELSE NoValue]
    /\ UNCHANGED <<heap, subscriptions, returned, called, repeats, pass, emissions, aside>>

\* an asynchronous consumer's promise settles (between two turns of the caller)
ConsumerSettle(p, state) ==
    /\ Idle
    /\ promises[p].state = "pending"
    /\ promises' = [promises EXCEPT ![p].state = state,
                                    ![p].value = IF state = "resolved" THEN ConsumerValue(p)
                                                 ELSE NoValue]
    /\ UNCHANGED <<heap, subscriptions, returned, called, repeats, pass, emissions, aside>>

\* the promise the emitter returned settles
EmissionSettle(e) ==
    /\ Idle
    /\ emissions[e].result = "pending"
    /\ PromiseAll(emissions[e].wait) /= "pending"
    /\ emissions' = [emissions EXCEPT
          ![e].result = PromiseAll(emissions[e].wait),
          ![e].value = IF PromiseAll(emissions[e].wait) = "resolved"
                       THEN OnFulfilled(PromiseAllValues(emissions[e].wait))
                       ELSE NoValue]
    /\ UNCHANGED <<heap, subscriptions, returned, called, repeats, pass, promises, aside>>

Next ==
    \/ \E in \in SubscribeInputs : Subscribe(in[1], in[2])
    \/ \E h \in Handles : Unsubscribe(h)
    \/ \E m \in Messages, t \in Topics : Emit(m, t)
    \/ ReduceSkip
    \/ FilterThrows
    \/ ConsumeSync
    \/ ConsumeAsync
    \/ ConsumeThrows
    \/ ConsumeRevoker
    \/ ConsumeSubscriber
    \/ EmitReturn
    \/ \E p \in 1..Len(promises), s \in {"resolved", "rejected"} : ConsumerSettle(p, s)
    \/ \E e \in 1..Len(emissions) : EmissionSettle(e)

Spec == Init /\ [][Next]_vars

(***************************************************************************)
(* A Subscription on its own: it is constructed, then check(msg, topic) is *)
(* called on it.                                                           *)
(***************************************************************************)
Topic42 == NumV(42)
TopicS42 == StrV(<<"4", "2">>)
Topic52 == NumV(52)
Topic142 == NumV(142)
TopicS142 == StrV(<<"1", "4", "2">>)

\* /^4\d$/ and /4\d/
RegExpWhole ==
    [anchS |-> TRUE, anchE |-> TRUE, body |-> <<"4", "\\d">>,
     sticky |-> FALSE, lastIndex |-> 0]
RegExpPart ==
    [anchS |-> FALSE, anchE |-> FALSE, body |-> <<"4", "\\d">>,
     sticky |-> FALSE, lastIndex |-> 0]

CheckPatterns ==
    {NoPattern, ExactPattern(TopicA), ExactPattern(Topic42), ExactPattern(TopicS42),
     RegExpPattern(RegExpWhole), RegExpPattern(RegExpPart)}

CheckTopics ==
    {Undefined, TopicA, TopicB, Topic42, TopicS42, Topic52, Topic142, TopicS142}

CheckSubjects ==
    {NewSubscription("sync", strict, p, f) :
        strict \in BOOLEAN, p \in CheckPatterns, f \in ContentFilters}

CheckInit ==
    /\ heap \in {<<s>> : s \in CheckSubjects}
    /\ subscriptions = <<>>
    /\ returned = <<>>
    /\ called = <<>>
    /\ repeats = <<>>
    /\ pass = NoPass
    /\ emissions = <<>>
    /\ promises = <<>>
    /\ checks = <<>>
    /\ built = <<>>
    /\ RegistryInit
    /\ InstancesInit

\* subscription.check(msg, topic), with the subscription as it was at the call
\* and what its matchTopic(topic) returned
CallCheck(msg, topic) ==
    /\ Len(checks) < MaxChecks
    /\ checks' = Append(checks,
          [msg |-> msg, topic |-> topic,
           subject |-> heap[1],
           matchTopic |-> MatchTopic(heap[1], topic),
           ret |-> Check(heap[1], msg, topic)])
    /\ heap' = [heap EXCEPT ![1] = AfterCheck(@, topic)]
    /\ UNCHANGED <<subscriptions, returned, called, repeats, pass, emissions, promises,
                   built, registry, instances>>

CheckNext == \E msg \in Messages, topic \in CheckTopics : CallCheck(msg, topic)

CheckSpec == CheckInit /\ [][CheckNext]_vars

(***************************************************************************)
(* check() called again and again on one Subscription whose pattern may be *)
(* a sticky RegExp, new RegExp("4\\d", "y").                               *)
(***************************************************************************)
RegExpSticky ==
    [anchS |-> FALSE, anchE |-> FALSE, body |-> <<"4", "\\d">>,
     sticky |-> TRUE, lastIndex |-> 0]

RepeatSubjects ==
    {NewSubscription("sync", strict, p, f) :
        strict \in BOOLEAN,
        p \in {ExactPattern(Topic42), RegExpPattern(RegExpPart), RegExpPattern(RegExpSticky)},
        f \in ContentFilters}

RepeatInit ==
    /\ heap \in {<<s>> : s \in RepeatSubjects}
    /\ subscriptions = <<>>
    /\ returned = <<>>
    /\ called = <<>>
    /\ repeats = <<>>
    /\ pass = NoPass
    /\ emissions = <<>>
    /\ promises = <<>>
    /\ checks = <<>>
    /\ built = <<>>
    /\ RegistryInit
    /\ InstancesInit

RepeatSpec == RepeatInit /\ [][CheckNext]_vars

(***************************************************************************)
(* buildFilteringOptions on its own: it is called with nothing, with a     *)
(* bare pattern, or with an object.                                        *)
(***************************************************************************)
BuildPatterns ==
    {NoPattern, ExactPattern(TopicA), ExactPattern(Topic42), RegExpPattern(RegExpWhole)}

BuildProps ==
    {NoProps}
    \cup {BareProps(p) : p \in BuildPatterns \ {NoPattern}}
    \cup {ObjectProps(p, strict, f) :
             p \in BuildPatterns, strict \in {"omitted", "true", "false"},
             f \in ContentFilters}

\* buildFilteringOptions(props)
CallBuild(props) ==
    /\ Len(built) < MaxBuilds
    /\ built' = Append(built, [props |-> props, opts |-> BuildFilteringOptions(props)])
    /\ UNCHANGED <<publisher, checks, registry, instances>>

OptionsNext == \E props \in BuildProps : CallBuild(props)

OptionsSpec == Init /\ [][OptionsNext]_vars

(***************************************************************************)
(* The static registry of Subscription: uniqueSubscriptions, lastId,       *)
(* getOrCreate and unref.  uniqueSubscriptions is a Map that is never      *)
(* iterated, modelled as a function from its keys.  An object made by      *)
(* `new Subscription` has its own identity, ref; issued is the sequence of *)
(* the objects getOrCreate returned, unrefs the sequence of the unref      *)
(* calls, each with the number of objects issued before it.                *)
(***************************************************************************)
RegistrySet(map, key, value) ==
    [k \in DOMAIN map \cup {key} |-> IF k = key THEN value ELSE map[k]]

RegistryDelete(map, key) == [k \in DOMAIN map \ {key} |-> map[k]]

RegistryInputs ==
    {<<"sync", BuildFilteringOptions(NoProps)>>,
     <<"async", BuildFilteringOptions(BareProps(ExactPattern(TopicA)))>>}

UnrefKeys == -1..MaxCreates

\* new Subscription(key, consume, opts.strictTopicFiltering, opts.topicPattern,
\* opts.contentFilter): a new object
KeyedSubscription(key, consume, opts) ==
    [ref |-> Len(issued) + 1,
     key |-> key,
     sub |-> NewSubscription(consume, opts.strictTopicFiltering, opts.topicPattern,
                             opts.contentFilter)]

\* (a slip: the smallest free key is taken)
NextKeyFree ==
    CHOOSE k \in 0..(lastId + 1) :
        /\ k \notin DOMAIN uniqueSubscriptions
        /\ \A j \in 0..(k - 1) : j \in DOMAIN uniqueSubscriptions

\* ++Subscription.lastId
NextKey == lastId + 1

\* Subscription.getOrCreate(consume, opts)
GetOrCreate(consume, opts) ==
    LET key == NextKey
    IN /\ Len(issued) < MaxCreates
       /\ lastId' = key
       /\ IF key \in DOMAIN uniqueSubscriptions
          THEN /\ issued' = Append(issued, uniqueSubscriptions[key])
               /\ UNCHANGED uniqueSubscriptions
          ELSE LET subscription == KeyedSubscription(key, consume, opts)
               IN /\ uniqueSubscriptions' = RegistrySet(uniqueSubscriptions, key, subscription)
                  /\ issued' = Append(issued, subscription)
       /\ UNCHANGED <<publisher, checks, built, unrefs, instances>>

\* (a slip: the entry is deleted and true returned without looking)
UnrefBlind(key) ==
    /\ Len(unrefs) < MaxUnrefs
    /\ uniqueSubscriptions' = RegistryDelete(uniqueSubscriptions, key)
    /\ unrefs' = Append(unrefs, [key |-> key, ret |-> TRUE, at |-> Len(issued)])
    /\ UNCHANGED <<publisher, checks, built, lastId, issued, instances>>

\* (a slip: removing an entry hands its place in the numbering back)
UnrefRewind(key) ==
    LET existed == key \in DOMAIN uniqueSubscriptions
    IN /\ Len(unrefs) < MaxUnrefs
       /\ uniqueSubscriptions' =
             IF existed THEN RegistryDelete(uniqueSubscriptions, key) ELSE uniqueSubscriptions
       /\ lastId' = IF existed THEN lastId - 1 ELSE lastId
       /\ unrefs' = Append(unrefs, [key |-> key, ret |-> existed, at |-> Len(issued)])
       /\ UNCHANGED <<publisher, checks, built, issued, instances>>

\* Subscription.unref(key)
Unref(key) ==
    LET existed == key \in DOMAIN uniqueSubscriptions
    IN /\ Len(unrefs) < MaxUnrefs
       /\ uniqueSubscriptions' =
             IF existed THEN RegistryDelete(uniqueSubscriptions, key) ELSE uniqueSubscriptions
       /\ unrefs' = Append(unrefs, [key |-> key, ret |-> existed, at |-> Len(issued)])
       /\ UNCHANGED <<publisher, checks, built, lastId, issued, instances>>

RegistryNext ==
    \/ \E input \in RegistryInputs : GetOrCreate(input[1], input[2])
    \/ \E key \in UnrefKeys : Unref(key)

RegistrySpec == Init /\ [][RegistryNext]_vars

(***************************************************************************)
(* A Publisher over identity-tracked subscriptions: Subscription.create    *)
(* gives the new subscription a slot in the registry, as getOrCreate does. *)
(* The subscription that subscribe() creates is heap[Len(heap) + 1] and is *)
(* the registry's object of the same ref.  The Unsubscribe closure is the  *)
(* one of Publisher.subscribe.                                             *)
(***************************************************************************)
SubscribeTracked(consume, filteringOptions) ==
    /\ Idle
    /\ WithinBounds(DoSubscribe(consume, filteringOptions).heap, Len(emissions))
    /\ LET r == DoSubscribe(consume, filteringOptions)
           key == NextKey
           subscription ==
               KeyedSubscription(key, consume, BuildFilteringOptions(filteringOptions))
       IN /\ heap' = r.heap
          /\ subscriptions' = r.subscriptions
          /\ returned' = Append(returned, r.unsubscribe)
          /\ called' = Append(called, 0)
          /\ lastId' = key
          /\ uniqueSubscriptions' = RegistrySet(uniqueSubscriptions, key, subscription)
          /\ issued' = Append(issued, subscription)
    /\ UNCHANGED <<repeats, pass, emissions, promises, checks, built, unrefs, instances>>

TrackedNext ==
    \/ \E in \in SubscribeInputs : SubscribeTracked(in[1], in[2])
    \/ \E h \in Handles : Unsubscribe(h)

TrackedSpec == Init /\ [][TrackedNext]_vars

(***************************************************************************)
(* Scheduling.  The emitter is synchronous code: once called it runs to    *)
(* its return or its throw.  The reaction of Promise.all to its inputs is  *)
(* a job of the microtask queue, which runs once the call stack is empty.  *)
(* Nothing makes a caller call, or a consumer's promise settle.            *)
(***************************************************************************)
EmitterStep ==
    \/ ReduceSkip
    \/ FilterThrows
    \/ ConsumeSync
    \/ ConsumeAsync
    \/ ConsumeThrows
    \/ ConsumeRevoker
    \/ ConsumeSubscriber
    \/ EmitReturn

JoinStep == \E e \in 1..Len(emissions) : EmissionSettle(e)

FairSpec == Spec /\ WF_vars(EmitterStep) /\ WF_vars(JoinStep)

(***************************************************************************)
(* Properties.                                                             *)
(***************************************************************************)
SeqRange(s) == {s[i] : i \in 1..Len(s)}

\* the emitter call e is over and did not throw
Returned(em) == em.result \in {"undefined", "pending", "resolved", "rejected"}
\* the emitter call e is over
Ended(em) == em.result /= "running"

\* how often the consumer of subscription s was called with msg in emission em
Times(em, s, msg) ==
    Cardinality({i \in 1..Len(em.invoked) : em.invoked[i] = [sub |-> s, msg |-> msg]})
\* how often it was called at all
Calls(em, s) == Cardinality({i \in 1..Len(em.invoked) : em.invoked[i].sub = s})

Delivered(em) ==
    \A s \in 1..Len(heap) :
        IF s \in SeqRange(em.liveAtStart) /\ Check(heap[s], em.msg, em.topic)
        THEN Calls(em, s) = 1 /\ Times(em, s, em.msg) = 1
        ELSE Calls(em, s) = 0

Duplicates(i, j) == i < j /\ heap[i] = heap[j]

\* C2: two subscribe calls with the same consumer and the same options give
\* two handles that differ and two live subscriptions (subscriptionsNumber
\* counts both), and one matching emission calls the consumer once for each.
C2_DuplicatesIndependent ==
    /\ \A i, j \in 1..Len(returned) : i /= j => returned[i] /= returned[j]
    /\ Len(returned) = Len(heap)
    /\ SubscriptionsNumber = Cardinality({h \in Handles : called[h] = 0})
    /\ \A i, j \in Handles :
          (Duplicates(i, j) /\ called[i] = 0 /\ called[j] = 0)
              => {i, j} \subseteq MapKeys(subscriptions)
    /\ \A e \in 1..Len(emissions) : \A i, j \in Handles :
          LET em == emissions[e]
          IN (/\ Duplicates(i, j) /\ Returned(em) /\ ~em.setChanged
              /\ {i, j} \subseteq SeqRange(em.liveAtStart)
              /\ Check(heap[i], em.msg, em.topic))
                 => Times(em, i, em.msg) = 1 /\ Times(em, j, em.msg) = 1

C2_Witness ==
    /\ Len(heap) = 2 /\ heap[1] = heap[2]
    /\ SubscriptionsNumber = 2
    /\ \E e \in 1..Len(emissions) :
          Returned(emissions[e]) /\ Len(emissions[e].invoked) = 2

\* the handles not called yet, in the order of their subscribe calls
RECURSIVE Uncalled(_)
Uncalled(n) ==
    IF n = 0 THEN <<>>
    ELSE IF called[n] = 0 THEN Append(Uncalled(n - 1), n) ELSE Uncalled(n - 1)

\* C3: a revoke handle removes the subscription of its own subscribe call and
\* no other: the live subscriptions are always exactly those whose own handle
\* was never called, in registration order, whatever their parameters, and a
\* later emission still reaches each of them that matches.
C3_RevokeExactlyOwn ==
    /\ KeysFrom(subscriptions, 0) = Uncalled(Len(heap))
    /\ SubscriptionsNumber = Len(heap) - Cardinality(CalledHandles)
    /\ \A e \in 1..Len(emissions) : \A s \in Handles :
          LET em == emissions[e]
          IN (/\ Returned(em) /\ ~em.setChanged
              /\ s <= em.createdAtStart /\ s \notin em.calledAtStart
              /\ Check(heap[s], em.msg, em.topic))
                 => Calls(em, s) = 1

C3_Witness ==
    /\ Len(heap) = 2 /\ heap[1] = heap[2]
    /\ called[1] /= 0 /\ called[2] = 0
    /\ SubscriptionsNumber = 1
    /\ \E e \in 1..Len(emissions) :
          /\ emissions[e].calledAtStart = {1}
          /\ Returned(emissions[e])
          /\ Calls(emissions[e], 2) = 1

\* C4: calling a revoke handle that was called before changes nothing: the
\* Map is left as it was, also when subscriptions were added since.
C4_RevokeIdempotent ==
    [][Len(repeats') = Len(repeats) + 1 => subscriptions' = subscriptions]_vars

C4_Witness ==
    \E r \in 1..Len(repeats) :
        /\ repeats[r].at > called[repeats[r].h]
        /\ SubscriptionsNumber >= 1

\* C5: an emission never calls the consumer of a subscription whose revoke
\* handle had been called when the emission started.
C5_NoDeliveryAfterRevoke ==
    \A e \in 1..Len(emissions) : \A i \in 1..Len(emissions[e].invoked) :
        emissions[e].invoked[i].sub \notin emissions[e].calledAtStart

C5_Witness ==
    \E e \in 1..Len(emissions) : \E s \in emissions[e].calledAtStart :
        /\ Ended(emissions[e])
        /\ Check(heap[s], emissions[e].msg, emissions[e].topic)
        /\ Len(emissions[e].invoked) >= 1

\* the promises the consumers called in emission e returned
PromisesOf(e) == {p \in 1..Len(promises) : promises[p].e = e}
\* the emitter call e returned a promise
Joined(em) == em.result \in {"pending", "resolved", "rejected"}

\* C6 (as stated): the result of an emission resolves only when every
\* promise it collected has resolved, and while a collected promise is
\* pending the result is pending.
C6_PendingWhileAnyPending ==
    \A e \in 1..Len(emissions) :
        /\ emissions[e].result = "resolved"
              => \A p \in PromisesOf(e) : promises[p].state = "resolved"
        /\ (Joined(emissions[e]) /\ \E p \in PromisesOf(e) : promises[p].state = "pending")
              => emissions[e].result = "pending"

\* C6 (amended): the result resolves only when every promise it collected
\* has resolved; while a collected promise is pending the result is not
\* resolved, and it is pending as long as no collected promise has rejected.
C6_JoinWaitsForAll ==
    \A e \in 1..Len(emissions) :
        /\ emissions[e].result = "resolved"
              => \A p \in PromisesOf(e) : promises[p].state = "resolved"
        /\ (/\ Joined(emissions[e])
            /\ \E p \in PromisesOf(e) : promises[p].state = "pending"
            /\ \A p \in PromisesOf(e) : promises[p].state /= "rejected")
              => emissions[e].result = "pending"

C6_Witness ==
    \E e \in 1..Len(emissions) : \E p, q \in PromisesOf(e) :
        /\ promises[p].state = "resolved"
        /\ promises[q].state = "pending"
        /\ emissions[e].result = "pending"

\* C7 (as stated): the result of an emission is settled only when every
\* promise it collected is settled.
C7_SettlesAfterAllSettled ==
    \A e \in 1..Len(emissions) :
        emissions[e].result \in {"resolved", "rejected"}
            => \A p \in PromisesOf(e) : promises[p].state /= "pending"

\* C7 (amended): the result is fulfilled only when no collected promise is
\* left pending or rejected, and it is rejected only when a collected promise
\* has rejected, which may be while others are still pending.
C7_SettlesWithFirstRejection ==
    \A e \in 1..Len(emissions) :
        /\ emissions[e].result = "resolved"
              => \A i \in 1..Len(emissions[e].wait) :
                    promises[emissions[e].wait[i]].state = "resolved"
        /\ emissions[e].result = "rejected"
              => \E i \in 1..Len(emissions[e].wait) :
                    promises[emissions[e].wait[i]].state = "rejected"

C7_Witness ==
    \E e \in 1..Len(emissions) : \E p, q \in PromisesOf(e) :
        /\ promises[p].state = "rejected"
        /\ promises[q].state = "pending"
        /\ emissions[e].result = "rejected"

\* the emitter call em ended by throwing
Threw(em) == em.result = "threw"

\* C8: an emitter call in which no consumer returned a promise is over when
\* it returns and returns undefined, never a promise, and the consumer of
\* every subscription it found matching has run by then.
C8_SynchronousCompletion ==
    \A e \in 1..Len(emissions) :
        LET em == emissions[e]
        IN (Ended(em) /\ PromisesOf(e) = {}) =>
              /\ ~Threw(em) => em.result = "undefined"
              /\ em.wait = <<>>
              /\ ~Threw(em) =>
                    \A s \in SeqRange(em.evaluated) :
                        Check(heap[s], em.msg, em.topic) => Calls(em, s) = 1

C8_Witness ==
    \E e \in 1..Len(emissions) :
        /\ emissions[e].result = "undefined"
        /\ Len(emissions[e].invoked) = 2

\* C9: when an emitter call that matched synchronous and asynchronous
\* consumers returns, every matching consumer has been called, the promise of
\* every asynchronous one is in the wait set, and the result is a promise
\* that is pending while those promises are.
C9_MixedSyncAsync ==
    \A e \in 1..Len(emissions) :
        LET em == emissions[e]
        IN (Returned(em) /\ PromisesOf(e) /= {}) =>
              /\ Joined(em)
              /\ PromisesOf(e) = SeqRange(em.wait)
              /\ \A i \in 1..Len(em.invoked) :
                    heap[em.invoked[i].sub].consume = "async"
                       => \E p \in SeqRange(em.wait) : promises[p].sub = em.invoked[i].sub
              /\ \A s \in SeqRange(em.evaluated) :
                    Check(heap[s], em.msg, em.topic) => Calls(em, s) = 1
              /\ (\A p \in PromisesOf(e) : promises[p].state = "pending")
                    => em.result = "pending"

C9_Witness ==
    \E e \in 1..Len(emissions) :
        LET em == emissions[e]
        IN /\ em.result = "pending"
           /\ Len(em.invoked) = 2
           /\ heap[em.invoked[1].sub].consume = "async"
           /\ heap[em.invoked[2].sub].consume = "sync"
           /\ \A p \in PromisesOf(e) : promises[p].state = "pending"

\* C10: the subscriptions an emission evaluates are those that were live
\* when the emitter was called, in their order.
C10_SnapshotIteration ==
    \A e \in 1..Len(emissions) :
        Returned(emissions[e]) => emissions[e].evaluated = emissions[e].liveAtStart

\* the last element of a sequence that is not empty
Last(s) == s[Len(s)]

\* the last consumer called in emission em throws
ConsumerThrew(em) ==
    em.invoked /= <<>> /\ heap[Last(em.invoked).sub].consume = "throws"

\* the last content filter called in emission em throws
FilterThrew(em) ==
    em.filtered /= <<>> /\ heap[Last(em.filtered)].contentFilter = ThrowingFilter

\* C11: when a synchronous consumer throws, the emitter call ends by throwing
\* (it returns nothing), the throwing consumer is the last subscription the
\* emission evaluated and the last it invoked, and this stays so: the
\* subscriptions after it in the Map are neither evaluated nor invoked.
C11_ThrowPropagates ==
    \A e \in 1..Len(emissions) :
        LET em == emissions[e]
        IN /\ (\E i \in 1..Len(em.invoked) : heap[em.invoked[i].sub].consume = "throws")
                 => /\ Threw(em)
                    /\ heap[Last(em.invoked).sub].consume = "throws"
                    /\ \A i \in 1..(Len(em.invoked) - 1) :
                          heap[em.invoked[i].sub].consume /= "throws"
                    /\ Last(em.evaluated) = Last(em.invoked).sub
           /\ Threw(em) => (pass.e /= e /\ (ConsumerThrew(em) \/ FilterThrew(em)))

C11_Witness ==
    \E e \in 1..Len(emissions) :
        LET em == emissions[e]
        IN /\ Threw(em)
           /\ Len(em.liveAtStart) = 2
           /\ em.evaluated = <<em.liveAtStart[1]>>
           /\ MapHas(subscriptions, em.liveAtStart[2])
           /\ Check(heap[em.liveAtStart[2]], em.msg, em.topic)
           /\ Calls(em, em.liveAtStart[2]) = 0

\* the emitter calls a run can make
EmissionIds == 1..(IF MaxSoloEmits > MaxEmits THEN MaxSoloEmits ELSE MaxEmits)

\* a promise collected by emitter call e, which returned, has rejected
RejectionIn(e) ==
    /\ e <= Len(emissions)
    /\ Returned(emissions[e])
    /\ \E i \in 1..Len(emissions[e].wait) :
          promises[emissions[e].wait[i]].state = "rejected"

\* C12: when a promise collected by an emission has rejected, the result of
\* the emission is not fulfilled, it becomes rejected and stays rejected;
\* and a promise of the same emission that is still pending can still
\* settle, the join rejected or not.
C12_RejectionPropagates ==
    /\ [](\A e \in 1..Len(emissions) :
             RejectionIn(e) =>
                /\ emissions[e].result \in {"pending", "rejected"}
                /\ \A p \in PromisesOf(e) :
                      (promises[p].state = "pending" /\ Idle)
                         => ENABLED ConsumerSettle(p, "resolved"))
    /\ [][\A e \in 1..Len(emissions) :
             emissions[e].result = "rejected" => emissions'[e].result = "rejected"]_vars
    /\ \A e \in EmissionIds :
          RejectionIn(e) ~> (e <= Len(emissions) /\ emissions[e].result = "rejected")

C12_Witness ==
    \E e \in 1..Len(emissions) : \E p, q \in PromisesOf(e) :
        /\ emissions[e].result = "rejected"
        /\ promises[p].state = "rejected"
        /\ promises[q].state = "pending"
        /\ Idle
        /\ ENABLED ConsumerSettle(q, "resolved")

\* a sequence of subscriptions is in the order of their subscribe() calls
\* (the heap is filled in that order)
InRegistrationOrder(s) == \A i, j \in 1..Len(s) : i < j => s[i] < s[j]

\* the subscriptions whose consumers emission em called, in call order
InvokedSubs(em) == [i \in 1..Len(em.invoked) |-> em.invoked[i].sub]

\* C13: the live subscriptions are always kept in registration order,
\* whatever was revoked; every emission evaluates subscriptions in that
\* order and calls consumers in that order, each call being over before the
\* next subscription is evaluated (the consumer called last is the one of
\* the subscription evaluated last, or of an earlier one).
C13_RegistrationOrder ==
    /\ InRegistrationOrder(KeysFrom(subscriptions, 0))
    /\ \A e \in 1..Len(emissions) :
          LET em == emissions[e]
          IN /\ InRegistrationOrder(em.liveAtStart)
             /\ InRegistrationOrder(em.evaluated)
             /\ InRegistrationOrder(InvokedSubs(em))
             /\ SeqRange(InvokedSubs(em)) \subseteq SeqRange(em.evaluated)
             /\ em.invoked /= <<>> => Last(em.invoked).sub <= Last(em.evaluated)

C13_Witness ==
    \E e \in 1..Len(emissions) :
        LET em == emissions[e]
        IN /\ Returned(em)
           /\ em.createdAtStart = 3
           /\ em.calledAtStart = {1}
           /\ em.evaluated = <<2, 3>>
           /\ InvokedSubs(em) = <<2, 3>>

\* C14: subscriptionsNumber is the number of subscribe() calls made minus the
\* number of revoke handles called at least once, so 0 for a new Publisher
\* and never negative; calling a handle again does not count again.
C14_SubscriptionsNumber ==
    /\ SubscriptionsNumber = Len(returned) - Cardinality({h \in Handles : called[h] /= 0})
    /\ SubscriptionsNumber >= 0
    /\ Len(returned) = 0 => SubscriptionsNumber = 0

C14_Witness ==
    /\ Len(returned) = 3
    /\ Cardinality({h \in Handles : called[h] /= 0}) = 2
    /\ repeats /= <<>>
    /\ SubscriptionsNumber = 1

\* the Subscription check() is called on
Subject == heap[1]
Calls1 == 1..Len(checks)

\* C15: on a subscription with no topic pattern, strict or not, every call
\* of check passes the topic check, with a topic or without; with no content
\* filter either, check returns true.
C15_NoPatternAcceptsAll ==
    Subject.topicPattern.kind = "undefined" =>
        \A i \in Calls1 :
            /\ checks[i].matchTopic
            /\ Subject.contentFilter = "undefined" => checks[i].ret

C15_Witness ==
    /\ Subject.topicPattern.kind = "undefined"
    /\ Subject.strictTopicFiltering
    /\ Subject.contentFilter = "undefined"
    /\ \E i, j \in Calls1 :
          /\ checks[i].topic = Undefined /\ checks[i].ret
          /\ checks[j].topic = TopicA /\ checks[j].ret

\* C16: on a subscription with an exact pattern p, strict, no content filter,
\* check is false without a topic, true with topic p, false with any other
\* topic (a number and the string of its digits are different topics).
C16_ExactStrict ==
    (/\ Subject.topicPattern.kind = "topic"
     /\ Subject.strictTopicFiltering
     /\ Subject.contentFilter = "undefined") =>
        \A i \in Calls1 :
            /\ checks[i].topic = Undefined => ~checks[i].ret
            /\ checks[i].topic = Subject.topicPattern.v => checks[i].ret
            /\ checks[i].topic /= Subject.topicPattern.v => ~checks[i].ret

C16_Witness ==
    /\ Subject.topicPattern = ExactPattern(TopicS42)
    /\ Subject.strictTopicFiltering
    /\ Subject.contentFilter = "undefined"
    /\ \E i, j \in Calls1 :
          /\ checks[i].topic = TopicS42 /\ checks[i].ret
          /\ checks[j].topic = Topic42 /\ ~checks[j].ret

\* C17: on a subscription with a pattern, exact or regular expression, and
\* strictTopicFiltering false, a call without a topic passes the topic check
\* (check then returns what the content filter says).
C17_LenientWithoutTopic ==
    (Subject.topicPattern.kind /= "undefined" /\ ~Subject.strictTopicFiltering) =>
        \A i \in Calls1 :
            checks[i].topic = Undefined =>
                /\ checks[i].matchTopic
                /\ checks[i].ret = ContentFilterApply(Subject.contentFilter, checks[i].msg)

C17_Witness ==
    /\ Subject.topicPattern = RegExpPattern(RegExpWhole)
    /\ ~Subject.strictTopicFiltering
    /\ \E i \in Calls1 : checks[i].topic = Undefined /\ checks[i].matchTopic

\* C18: check returns true exactly when the topic check passes and there is
\* no content filter or the content filter accepts the message.
C18_TopicAndContent ==
    \A i \in Calls1 :
        checks[i].ret <=>
            /\ checks[i].matchTopic
            /\ \/ Subject.contentFilter = "undefined"
               \/ Subject.contentFilter = "isString" /\ checks[i].msg.type = "string"
               \/ Subject.contentFilter = "isNumber" /\ checks[i].msg.type = "number"

C18_Witness ==
    /\ Subject.topicPattern = ExactPattern(TopicA)
    /\ Subject.contentFilter = "isString"
    /\ \E i, j \in Calls1 :
          /\ checks[i].topic = TopicA /\ checks[i].msg.type = "number" /\ ~checks[i].ret
          /\ checks[j].topic = TopicB /\ checks[j].msg.type = "string" /\ ~checks[j].ret

\* the characters a..b of s match the atoms of the pattern one for one
PieceMatches(re, s, a, b) ==
    /\ b - a + 1 = Len(re.body)
    /\ \A k \in 1..Len(re.body) : AtomMatches(re.body[k], s[a + k - 1])
    /\ re.anchS => a = 1
    /\ re.anchE => b = Len(s)

\* some piece of s matches the pattern
Contains(s, re) ==
    \E a \in 1..(Len(s) + 1) : \E b \in 0..Len(s) : a <= b + 1 /\ PieceMatches(re, s, a, b)

RevokedSinceInvoked(p) ==
    /\ called[promises[p].sub] /= 0
    /\ promises[p].sub \notin emissions[promises[p].e].calledAtStart

\* C20: revoking a subscription whose asynchronous consumer an emission has
\* already called cancels nothing.  The emission keeps the call and the
\* promise; while that promise is pending the result is not fulfilled (and is
\* pending unless another promise rejected), and the promise can still
\* settle.  Only the emissions started after the revocation leave the
\* subscription out.
C20_RevokeDoesNotCancel ==
    \A p \in 1..Len(promises) :
        LET s == promises[p].sub
            e == promises[p].e
            em == emissions[e]
        IN RevokedSinceInvoked(p) =>
              /\ Calls(em, s) = 1
              /\ Returned(em) => p \in SeqRange(em.wait)
              /\ promises[p].state = "pending" =>
                    /\ em.result /= "resolved"
                    /\ (Returned(em) /\ \A q \in PromisesOf(e) : promises[q].state /= "rejected")
                          => em.result = "pending"
                    /\ Idle => ENABLED ConsumerSettle(p, "resolved")
              /\ \A e2 \in 1..Len(emissions) :
                    s \in emissions[e2].calledAtStart
                       => (Calls(emissions[e2], s) = 0
                           /\ s \notin SeqRange(emissions[e2].evaluated))

C20_Witness ==
    \E p \in 1..Len(promises) : \E e2 \in 1..Len(emissions) :
        /\ RevokedSinceInvoked(p)
        /\ promises[p].state = "pending"
        /\ emissions[promises[p].e].result = "pending"
        /\ promises[p].sub \in emissions[e2].calledAtStart
        /\ Ended(emissions[e2])
        /\ Check(heap[promises[p].sub], emissions[e2].msg, emissions[e2].topic)

Builds == 1..Len(built)

C22_Normalization ==
    \A i \in Builds :
        LET props == built[i].props
            opts == built[i].opts
        IN /\ opts.strictTopicFiltering \in BOOLEAN
           /\ props.form = "absent" =>
                 /\ opts.strictTopicFiltering = FALSE
                 /\ opts.topicPattern = NoPattern
                 /\ opts.contentFilter = "undefined"
           /\ (props.form = "object" /\ props.strictTopicFiltering = "omitted") =>
                 (opts.strictTopicFiltering <=> props.topicPattern /= NoPattern)
           /\ (props.form = "object" /\ props.strictTopicFiltering = "true") =>
                 opts.strictTopicFiltering = TRUE
           /\ (props.form = "object" /\ props.strictTopicFiltering = "false") =>
                 opts.strictTopicFiltering = FALSE
           /\ opts.topicPattern = props.topicPattern
           /\ opts.contentFilter = props.contentFilter

C22_Witness ==
    \E i, j \in Builds :
        /\ built[i].props = ObjectProps(ExactPattern(TopicA), "omitted", "undefined")
        /\ built[i].opts.strictTopicFiltering = TRUE
        /\ built[j].props = ObjectProps(NoPattern, "omitted", "isString")
        /\ built[j].opts.strictTopicFiltering = FALSE
        /\ built[j].opts.contentFilter = "isString"

Issued == 1..Len(issued)

Unrefs == 1..Len(unrefs)

C24_Unref ==
    [][Len(unrefs') = Len(unrefs) + 1 =>
         LET u == unrefs'[Len(unrefs')]
         IN /\ u.ret <=> u.key \in DOMAIN uniqueSubscriptions
            /\ u.ret => uniqueSubscriptions' = RegistryDelete(uniqueSubscriptions, u.key)
            /\ ~u.ret => /\ uniqueSubscriptions' = uniqueSubscriptions
                         /\ lastId' = lastId]_vars

C24_Witness ==
    \E u, v \in Unrefs :
        /\ u < v
        /\ unrefs[u].key = unrefs[v].key
        /\ unrefs[u].ret
        /\ ~unrefs[v].ret
        /\ uniqueSubscriptions /= EmptyMap

\* C25: in an emission the content filter of a subscription is called only
\* when the topic of the emission passes the subscription's topic check, and
\* at most once.
C25_FilterAfterTopic ==
    \A e \in 1..Len(emissions) :
        LET em == emissions[e]
        IN /\ \A i \in 1..Len(em.filtered) :
                 /\ MatchTopic(heap[em.filtered[i]], em.topic)
                 /\ em.filtered[i] \in SeqRange(em.evaluated)
           /\ \A i, j \in 1..Len(em.filtered) :
                 i /= j => em.filtered[i] /= em.filtered[j]

C25_Witness ==
    \E e \in 1..Len(emissions) :
        LET em == emissions[e]
        IN \E s, u \in SeqRange(em.evaluated) :
              /\ heap[s].contentFilter /= "undefined"
              /\ ~MatchTopic(heap[s], em.topic)
              /\ s \notin SeqRange(em.filtered)
              /\ u \in SeqRange(em.filtered)

\* C26: when the content filter of a subscription throws in an emission, the
\* emitter call ends by throwing, the consumer of that subscription is not
\* called, and that subscription is the last one evaluated in the emission.
C26_FilterThrowPropagates ==
    \A e \in 1..Len(emissions) :
        LET em == emissions[e]
        IN (\E i \in 1..Len(em.filtered) : heap[em.filtered[i]].contentFilter = ThrowingFilter)
              => /\ Threw(em)
                 /\ pass.e /= e
                 /\ FilterThrew(em)
                 /\ \A i \in 1..(Len(em.filtered) - 1) :
                       heap[em.filtered[i]].contentFilter /= ThrowingFilter
                 /\ Last(em.evaluated) = Last(em.filtered)
                 /\ Calls(em, Last(em.filtered)) = 0

C26_Witness ==
    \E e \in 1..Len(emissions) :
        LET em == emissions[e]
        IN /\ Threw(em)
           /\ Len(em.liveAtStart) = 2
           /\ em.evaluated = <<em.liveAtStart[1]>>
           /\ heap[em.liveAtStart[1]].contentFilter = ThrowingFilter
           /\ em.invoked = <<>>
           /\ MapHas(subscriptions, em.liveAtStart[2])
           /\ Check(heap[em.liveAtStart[2]], em.msg, em.topic)

\* the calls of emission em whose consumer returned a promise
AsyncInvoked(em) == SelectSeq(em.invoked, LAMBDA c : heap[c.sub].consume = "async")

\* C27: the wait set of an emission holds the promises returned by the
\* consumers called in it, one for each call that returned one, in the order
\* of the calls, and nothing else: a subscription that does not match and a
\* consumer that returns undefined add nothing.
C27_WaitSet ==
    \A e \in 1..Len(emissions) :
        LET em == emissions[e]
        IN /\ Len(em.wait) = Len(AsyncInvoked(em))
           /\ \A k \in 1..Len(em.wait) :
                 /\ promises[em.wait[k]].e = e
                 /\ promises[em.wait[k]].sub = AsyncInvoked(em)[k].sub
                 /\ Check(heap[promises[em.wait[k]].sub], em.msg, em.topic)
           /\ \A j, k \in 1..Len(em.wait) : j < k => em.wait[j] < em.wait[k]
           /\ SeqRange(em.wait) = PromisesOf(e)

C27_Witness ==
    \E e \in 1..Len(emissions) :
        LET em == emissions[e]
        IN /\ Len(em.wait) = 2
           /\ Len(em.invoked) = 2
           /\ em.invoked[1].sub /= em.invoked[2].sub
           /\ promises[em.wait[1]].sub = em.invoked[1].sub
           /\ promises[em.wait[2]].sub = em.invoked[2].sub

\* C28: the promise an emitter call returned is fulfilled with undefined,
\* whatever the promises of the consumers were fulfilled with.
C28_NoValue ==
    \A e \in 1..Len(emissions) :
        emissions[e].result = "resolved" => emissions[e].value = Undefined

C28_Witness ==
    \E e \in 1..Len(emissions) :
        /\ emissions[e].result = "resolved"
        /\ Len(emissions[e].wait) = 2
        /\ \A p \in SeqRange(emissions[e].wait) :
              promises[p].value \in Messages

\* C29: check() changes nothing: the subscription is, after any number of
\* calls, what it was at each call (consumer, pattern, strictness and content
\* filter included), the Publisher's Map and the registry are what they were;
\* and two calls with the same message and topic return the same.
C29_CheckIsPure ==
    /\ \A i \in Calls1 : checks[i].subject = Subject
    /\ \A i, j \in Calls1 :
          (checks[i].msg = checks[j].msg /\ checks[i].topic = checks[j].topic)
             => checks[i].ret = checks[j].ret
    /\ subscriptions = <<>>
    /\ uniqueSubscriptions = EmptyMap
    /\ lastId = -1

C31_StrictnessIrrelevantWithTopic ==
    Subject.topicPattern.kind /= "undefined" =>
        \A i \in Calls1 :
            checks[i].topic /= Undefined =>
               /\ checks[i].matchTopic <=>
                     TopicMatcher(checks[i].subject.topicPattern, checks[i].topic)
               /\ (/\ Subject.topicPattern.kind = "topic"
                   /\ checks[i].topic /= Subject.topicPattern.v) => ~checks[i].ret

C31_Witness ==
    /\ Subject.topicPattern = ExactPattern(TopicA)
    /\ ~Subject.strictTopicFiltering
    /\ Subject.contentFilter = "undefined"
    /\ \E i, j \in Calls1 :
          /\ checks[i].topic = TopicB /\ ~checks[i].ret
          /\ checks[j].topic = TopicA /\ checks[j].ret

\* C32: an exact pattern accepts a topic exactly when the topic is the same
\* value of the same type: the string "42" and the number 42 reject each
\* other, and a string pattern rejects a longer string that contains it.
C32_StrictEquality ==
    Subject.topicPattern.kind = "topic" =>
        \A i \in Calls1 :
            checks[i].topic /= Undefined =>
               (checks[i].matchTopic <=>
                   /\ checks[i].topic.type = Subject.topicPattern.v.type
                   /\ checks[i].topic.n = Subject.topicPattern.v.n
                   /\ checks[i].topic.s = Subject.topicPattern.v.s)

C32_Witness ==
    /\ Subject.topicPattern = ExactPattern(TopicS42)
    /\ \E i, j \in Calls1 :
          /\ checks[i].topic = Topic42 /\ ~checks[i].matchTopic
          /\ checks[j].topic = TopicS142 /\ ~checks[j].matchTopic

\* C33: an emission calls at most as many consumers as there were live
\* subscriptions when the emitter was called, also when a consumer calls
\* subscribe() during the emission.
C33_InvokedAtMostLiveAtStart ==
    \A e \in 1..Len(emissions) :
        Len(emissions[e].invoked) <= Len(emissions[e].liveAtStart)

\* the closures called in emission em were those of the calling consumer's
\* own subscription or of one registered before it, which the iteration has
\* passed already
RevokedBehind(em) == \A i \in 1..Len(em.revoked) : em.revoked[i].h <= em.revoked[i].by

\* C34: when the consumers of an emission revoke only their own subscription
\* or one the emission has passed already, and the emitter returns, every
\* subscription that was live when the emitter was called and accepts the
\* message and topic has had its consumer called exactly once, and every
\* other one of them not at all.
C34_RevokeBehindKeepsDelivery ==
    \A e \in 1..Len(emissions) :
        LET em == emissions[e]
        IN (Returned(em) /\ RevokedBehind(em)) =>
              \A s \in SeqRange(em.liveAtStart) :
                  Calls(em, s) = IF Check(heap[s], em.msg, em.topic) THEN 1 ELSE 0

\* a revoker revoked its own subscription, which was live, and the
\* subscription after it was served once
C34_Witness ==
    \E e \in 1..Len(emissions) :
        LET em == emissions[e]
        IN /\ Returned(em)
           /\ Len(em.liveAtStart) = 2
           /\ em.revoked = <<[by |-> em.liveAtStart[1], h |-> em.liveAtStart[1]]>>
           /\ ~MapHas(subscriptions, em.liveAtStart[1])
           /\ Calls(em, em.liveAtStart[1]) = 1
           /\ Calls(em, em.liveAtStart[2]) = 1

\* C35: a step of an emitter call in which no consumer has changed the Map
\* (the call itself, the evaluation of a subscription, a consumer call, a
\* throw, the return) leaves the live subscriptions as they were when the
\* emitter was called: the same subscriptions in the same order, and the
\* same subscriptionsNumber.
C35_EmissionKeepsSubscriptions ==
    [][\A e \in 1..Len(emissions') :
          LET em == emissions'[e]
              running == e > Len(emissions) \/ emissions[e].result = "running"
          IN (running /\ ~em.setChanged) =>
                /\ KeysFrom(subscriptions', 0) = em.liveAtStart
                /\ MapSize(subscriptions') = Len(em.liveAtStart)]_vars

\* an emission called a consumer and then ended by a throw, no consumer
\* having touched the Map, and the two subscriptions live at its start are
\* the live subscriptions
C35_Witness ==
    \E e \in 1..Len(emissions) :
        LET em == emissions[e]
        IN /\ Threw(em)
           /\ ~em.setChanged
           /\ Len(em.invoked) = 2
           /\ Len(em.liveAtStart) = 2
           /\ KeysFrom(subscriptions, 0) = em.liveAtStart
           /\ SubscriptionsNumber = 2

\* Several Publisher instances. Their consumers are synchronous and leave
\* the publishers alone, so that an emitter call is one step.

\* (a slip: the Map is a static member, one for all the instances)
ThisSubscriptionsStatic(p) == 1

\* this.subscriptions of instance p: the Map the constructor of p made
ThisSubscriptions(p) == p

\* subscriptionsNumber of instance p
SizeIn(all, p) == MapSize(all.maps[ThisSubscriptions(p)])
SubscriptionsNumberOf(p) == SizeIn(instances, p)

OwnedProps == {NoProps, BareProps(ExactPattern(TopicA))}
OwnedTopics == {Undefined, TopicA, TopicB}
OwnedMessage == StrV(<<"m">>)

\* p.subscribe(consume, props)
PubSubscribe(p, props) ==
    /\ Len(instances.heap) < MaxOwned
    /\ LET opts == BuildFilteringOptions(props)
           subscription == Len(instances.heap) + 1
           entries == instances.maps[ThisSubscriptions(p)]
       IN instances' = [instances EXCEPT
              !.heap = Append(@, [owner |-> p, sub |-> SubscriptionCreate("sync", opts)]),
              !.maps[ThisSubscriptions(p)] =
                  IF MapHas(entries, subscription) THEN entries
                  ELSE MapSet(entries, subscription, subscription),
              !.last = p]
    /\ UNCHANGED <<publisher, checks, built, registry>>

\* the closure () => this.subscriptions.delete(subscription) that the
\* subscribe() call number h returned
PubUnsubscribe(h) ==
    /\ instances' = [instances EXCEPT
          !.maps[ThisSubscriptions(instances.heap[h].owner)] = DoUnsubscribe(@, h),
          !.last = instances.heap[h].owner]
    /\ UNCHANGED <<publisher, checks, built, registry>>

\* p.getEmitter(): a closure over p
GetEmitter(p) ==
    /\ Len(instances.emitters) < MaxEmitters
    /\ instances' = [instances EXCEPT
          !.emitters = Append(@, [pub |-> p, at |-> Len(instances.heap)]),
          !.last = p]
    /\ UNCHANGED <<publisher, checks, built, registry>>

\* (a slip: the emitter keeps the subscriptions made before it was obtained)
EmitterSubscriptionsSeen(g) ==
    LET entries == instances.maps[ThisSubscriptions(instances.emitters[g].pub)]
    IN [i \in 1..Len(entries) |->
          IF entries[i].key <= instances.emitters[g].at THEN entries[i]
          ELSE [entries[i] EXCEPT !.present = FALSE]]

\* this.subscriptions, read when emitter g is called
EmitterSubscriptions(g) == instances.maps[ThisSubscriptions(instances.emitters[g].pub)]

\* the subscriptions whose consumers a call of emitter g calls, in call order
Deliver(g, msg, topic) ==
    LET Matches(k) == Check(instances.heap[k].sub, msg, topic)
    IN SelectSeq(KeysFrom(EmitterSubscriptions(g), 0), Matches)

\* emitter g is called with msg and topic
PubEmit(g, msg, topic) ==
    /\ Len(instances.log) < MaxCalls
    /\ LET p == instances.emitters[g].pub
       IN instances' = [instances EXCEPT
             !.log = Append(@, [emitter |-> g, pub |-> p, msg |-> msg, topic |-> topic,
                                live |-> KeysFrom(instances.maps[ThisSubscriptions(p)], 0),
                                invoked |-> Deliver(g, msg, topic)]),
             !.last = p]
    /\ UNCHANGED <<publisher, checks, built, registry>>

PublishersNext ==
    \/ \E p \in Publishers, props \in OwnedProps : PubSubscribe(p, props)
    \/ \E h \in 1..Len(instances.heap) : PubUnsubscribe(h)
    \/ \E p \in Publishers : GetEmitter(p)
    \/ \E g \in 1..Len(instances.emitters), topic \in OwnedTopics :
          PubEmit(g, OwnedMessage, topic)

PublishersSpec == Init /\ [][PublishersNext]_vars

\* A consumer written in JavaScript may return any value. The consumer
\* "value" returns one that is neither undefined nor a promise: the reducer
\* keeps it (typeof consumptionRet !== "undefined") and Promise.all takes it
\* as a promise already fulfilled with it.
ConsumerReturn == NumV(1)

ConsumeValue ==
    /\ Checked
    /\ CurMatches
    /\ CurConsume = "value"
    /\ promises' = Append(promises, [state |-> "resolved", sub |-> CurSub, e |-> pass.e,
                                     value |-> ConsumerReturn])
    /\ emissions' = [emissions EXCEPT ![pass.e] =
                        [Invoked(@) EXCEPT !.wait = ReducerAcc(@, Len(promises) + 1)]]
    /\ pass' = [pass EXCEPT !.idx = Cur]
    /\ heap' = CheckedHeap
    /\ UNCHANGED <<subscriptions, returned, called, repeats, aside>>

UntypedNext ==
    \/ Next
    \/ Subscribe("value", NoProps)
    \/ ConsumeValue

UntypedSpec == Init /\ [][UntypedNext]_vars

\* the consumers that return something else than undefined
ReturnsDefined == {"async", "value"}

\* the calls of emission em whose consumer returned something else than undefined
DefinedReturns(em) ==
    {i \in 1..Len(em.invoked) : heap[em.invoked[i].sub].consume \in ReturnsDefined}

\* C38: an emitter call that returns has returned a promise if and only if
\* one of the consumers it called returned a value other than undefined (a
\* promise or any other value), and has returned undefined if and only if
\* every consumer it called returned undefined, or it called none.
C38_PendingIffDefinedReturn ==
    \A e \in 1..Len(emissions) :
        LET em == emissions[e]
        IN Returned(em) =>
              /\ Joined(em) <=> DefinedReturns(em) /= {}
              /\ em.result = "undefined" <=> DefinedReturns(em) = {}

\* an emitter call returned a promise: of the two consumers it called, the
\* first returned undefined and the second a value that is not a promise
C38_Witness ==
    \E e \in 1..Len(emissions) :
        LET em == emissions[e]
        IN /\ Joined(em)
           /\ Len(em.invoked) = 2
           /\ heap[em.invoked[1].sub].consume = "sync"
           /\ heap[em.invoked[2].sub].consume = "value"

Owned == 1..Len(instances.heap)
Emitters == 1..Len(instances.emitters)
EmitterCalls == 1..Len(instances.log)

\* subscription k of the instances accepts the message and topic of call l
Accepts(k, l) == Check(instances.heap[k].sub, l.msg, l.topic)

\* C36: a step on one Publisher instance (subscribe, a revoke closure of one
\* of its subscriptions, getEmitter, a call of one of its emitters) leaves
\* subscriptionsNumber of every other instance as it was, and an emitter
\* call calls only consumers of subscriptions made on its own instance.
C36_PublishersIsolated ==
    [][instances' /= instances =>
          /\ \A q \in Publishers \ {instances'.last} :
                SizeIn(instances', q) = SizeIn(instances, q)
          /\ Len(instances'.log) > Len(instances.log) =>
                LET l == instances'.log[Len(instances'.log)]
                IN \A k \in SeqRange(l.invoked) :
                      instances.heap[k].owner = l.pub]_vars

\* each of two instances has a live subscription accepting the same message
\* and topic; an emitter of the first was called and called the consumer of
\* the first one only
C36_Witness ==
    \E l \in SeqRange(instances.log) : \E k, j \in Owned :
        /\ instances.heap[k].owner = l.pub
        /\ instances.heap[j].owner /= l.pub
        /\ l.invoked = <<k>>
        /\ Accepts(j, l)
        /\ j < k
        /\ SubscriptionsNumberOf(l.pub) = 1
        /\ SubscriptionsNumberOf(instances.heap[j].owner) = 1

\* C37: a call of an emitter calls the consumers of the subscriptions of its
\* Publisher that are live at the call and accept the message and topic, in
\* registration order, whenever the emitter was obtained; and at any moment
\* two emitters obtained from the same Publisher would call the same
\* consumers for the same message and topic.
C37_EmitterReadsLiveSet ==
    /\ \A c \in EmitterCalls :
          LET l == instances.log[c]
              Matches(k) == Accepts(k, l)
          IN l.invoked = SelectSeq(l.live, Matches)
    /\ \A g, h \in Emitters :
          instances.emitters[g].pub = instances.emitters[h].pub =>
              \A topic \in OwnedTopics :
                  Deliver(g, OwnedMessage, topic) = Deliver(h, OwnedMessage, topic)

\* two emitters of one Publisher, obtained at different moments, were called
\* with the same message and topic and called the same consumer: that of a
\* subscription made after the first emitter was obtained, and not that of a
\* subscription made before it and revoked since
C37_Witness ==
    \E c, d \in EmitterCalls : \E j \in Owned :
        LET l == instances.log[c]
            m == instances.log[d]
        IN /\ l.emitter /= m.emitter
           /\ l.pub = m.pub
           /\ instances.emitters[l.emitter].at < instances.emitters[m.emitter].at
           /\ l.topic = m.topic
           /\ l.invoked = m.invoked
           /\ Len(l.invoked) = 1
           /\ l.invoked[1] > instances.emitters[l.emitter].at
           /\ instances.heap[j].owner = l.pub
           /\ j <= instances.emitters[l.emitter].at
           /\ Accepts(j, l)
           /\ ~MapHas(instances.maps[l.pub], j)

====
